---------------------------- MODULE Spec2Model ----------------------------
(***************************************************************************)
(* A model of lebedov/nseindia_reformat:                                   *)
(*   parse.py    parse_orders_data / parse_trades_data: the fixed-width    *)
(*               record decoder and the per-symbol CSV partitioner;        *)
(*   analyze.py  sample (forward-fill resampling on a fixed grid) and      *)
(*               analyze (the monthly statistics of one trades file).      *)
(*                                                                         *)
(* A line of the input file is a sequence of one-character strings, so     *)
(* that Python's slicing of a short line, int(), float() and strptime()    *)
(* are modelled by what they do to the bytes.                              *)
(***************************************************************************)
EXTENDS Integers, Sequences, FiniteSets, TLC

VARIABLES
    kind,       \* parse: "orders" (parse_orders_data) or "trades" (parse_trades_data)
    pc,         \* parse: "loop", "closing", "done", "raised"
    count,      \* parse: number of lines read (line 37/145)
    eof,        \* parse: the last line read had no line terminator (it ended the file)
    db,         \* parse: symbol -> state of its handle ("open" / "closed")
    files,      \* parse: symbol -> rows held by the file <symbol>-orders.csv
    opened,     \* parse: the symbols open(..., 'wb') was called for, in call order
    rows,       \* parse: the rows the decoder produced so far, in input order
    last,       \* parse: the line of the last loop body and its outcome
    sdf,        \* sample: df, the series: a sequence of [t, v]
    delta,      \* sample: the sampling interval
    s_t,        \* sample: t, the current grid timestamp
    s_i,        \* sample: i, the series cursor (0-based, as in the source)
    data_dict_last,  \* sample: the value carried
    result_dict,     \* sample: [t |-> the sample times, v |-> the sampled values]
    spc,        \* sample: "while", "inner", "done" ("idle" outside a sampling run)
    adf,        \* analyze: df, the rows of the trades file
    out,        \* analyze: what analyze computed
    apc         \* analyze: "start", "done", "raised" ("idle" outside a call)

pvars == <<kind, pc, count, eof, db, files, opened, rows, last>>

svars == <<sdf, delta, s_t, s_i, data_dict_last, result_dict, spc>>

avars == <<adf, out, apc>>

vars == <<pvars, svars, avars>>

(***************************************************************************)
(* Python string primitives                                                *)
(***************************************************************************)
Digits10 == <<"0", "1", "2", "3", "4", "5", "6", "7", "8", "9">>

Digit == {Digits10[i] : i \in 1..10}

DigitVal(c) == (CHOOSE i \in 1..10 : Digits10[i] = c) - 1

\* The characters str.strip() and int()/float() treat as white space.
WS == {" ", "\n", "\r", "\t"}

\* Python's s[lo:hi] on a string of any length: never an error, clipped to
\* the string.
Slice(s, lo, hi) == SubSeq(s, lo + 1, IF hi < Len(s) THEN hi ELSE Len(s))

RECURSIVE lstrip(_, _)
lstrip(s, cs) == IF s # <<>> /\ Head(s) \in cs THEN lstrip(Tail(s), cs) ELSE s

RECURSIVE rstrip(_, _)
rstrip(s, cs) ==
    IF s # <<>> /\ s[Len(s)] \in cs THEN rstrip(SubSeq(s, 1, Len(s) - 1), cs) ELSE s

\* str.strip(chars)
strip(s, cs) == rstrip(lstrip(s, cs), cs)

AllDigits(s) == \A i \in 1..Len(s) : s[i] \in Digit

Unsigned(s) == IF s # <<>> /\ Head(s) \in {"+", "-"} THEN Tail(s) ELSE s

Negative(s) == s # <<>> /\ Head(s) = "-"

RECURSIVE nat(_)
nat(u) == IF u = <<>> THEN 0 ELSE nat(SubSeq(u, 1, Len(u) - 1)) * 10 + DigitVal(u[Len(u)])

\* int(s) raises ValueError unless s, stripped of white space, is an
\* optional sign and at least one digit.
int_ok(s) ==
    LET u == Unsigned(strip(s, WS)) IN u # <<>> /\ AllDigits(u)

int(s) ==
    LET t == strip(s, WS) IN IF Negative(t) THEN 0 - nat(Unsigned(t)) ELSE nat(Unsigned(t))

Dots(u) == {i \in 1..Len(u) : u[i] = "."}

\* float(s) raises ValueError unless s, stripped, is an optional sign and
\* digits with at most one decimal point and at least one digit (the
\* exponent, inf and nan forms need letters the fields of the feed,
\* digits and padding, do not hold).
float_ok(s) ==
    LET u == Unsigned(strip(s, WS))
    IN  /\ Cardinality(Dots(u)) <= 1
        /\ \A i \in (1..Len(u)) \ Dots(u) : u[i] \in Digit
        /\ Len(u) > Cardinality(Dots(u))

\* '%.2f' % float(s) for an accepted s holding at most two digits after the
\* point: the whole part and the hundredths.
fmt2f(s) ==
    LET t == strip(s, WS)
        u == Unsigned(t)
        p == IF Dots(u) = {} THEN Len(u) + 1 ELSE CHOOSE i \in Dots(u) : TRUE
        frac == SubSeq(u, p + 1, Len(u)) \o <<"0", "0">>
    IN  [neg |-> Negative(t),
         whole |-> nat(SubSeq(u, 1, p - 1)),
         cents |-> nat(SubSeq(frac, 1, 2))]

(***************************************************************************)
(* Timestamps: jiffies since 1/1/1980 -> UTC date and time of day          *)
(***************************************************************************)
\* (datetime(1980,1,1) - datetime(1970,1,1)).total_seconds()
time_adjust == 315532800

\* jiffies per second: int(trans_date_time)/65536.0
Jiffies == 65536

\* int(digits)/65536.0 by long division, digit by digit, so that a
\* 14-digit count never has to be held as one number: the whole seconds q
\* and the remaining jiffies r.
RECURSIVE divJiffies(_)
divJiffies(u) ==
    IF u = <<>> THEN [q |-> 0, r |-> 0]
    ELSE LET p == divJiffies(SubSeq(u, 1, Len(u) - 1))
             n == p.r * 10 + DigitVal(u[Len(u)])
         IN  [q |-> p.q * 10 + (n \div Jiffies), r |-> n % Jiffies]

\* The civil date of a day number counted from 1/1/1970 (what
\* datetime.utcfromtimestamp computes), as [m, d, y].
civil(days) ==
    LET z == days + 719468
        era == z \div 146097
        doe == z - era * 146097
        yoe == (doe - (doe \div 1460) + (doe \div 36524) - (doe \div 146096)) \div 365
        doy == doe - (365 * yoe + (yoe \div 4) - (yoe \div 100))
        mp == (5 * doy + 2) \div 153
        d == doy - ((153 * mp + 2) \div 5) + 1
        m == IF mp < 10 THEN mp + 3 ELSE mp - 9
        y == yoe + era * 400 + (IF m <= 2 THEN 1 ELSE 0)
    IN  [m |-> m, d |-> d, y |-> y]

\* datetime.utcfromtimestamp(int(field)/65536.0 + time_adjust) split by
\* strftime into '%m/%d/%Y' and '%H:%M:%S.%f' (the microseconds rounded
\* from the remaining jiffies: 10^6/65536 = 15625/1024).
date_time(field) ==
    LET p == divJiffies(Unsigned(strip(field, WS)))
        sec == p.q + time_adjust
        tod == sec % 86400
    IN  [date |-> civil(sec \div 86400),
         time |-> [H |-> tod \div 3600, M |-> (tod % 3600) \div 60, S |-> tod % 60,
                   f |-> (p.r * 15625 + 512) \div 1024]]

Months ==
    << <<"J","A","N">>, <<"F","E","B">>, <<"M","A","R">>, <<"A","P","R">>,
       <<"M","A","Y">>, <<"J","U","N">>, <<"J","U","L">>, <<"A","U","G">>,
       <<"S","E","P">>, <<"O","C","T">>, <<"N","O","V">>, <<"D","E","C">> >>

MonthNo(b) == IF \E i \in 1..12 : Months[i] = b THEN CHOOSE i \in 1..12 : Months[i] = b ELSE 0

DaysIn(m, y) ==
    IF m = 2 THEN (IF (y % 4 = 0 /\ y % 100 # 0) \/ y % 400 = 0 THEN 29 ELSE 28)
    ELSE IF m \in {4, 6, 9, 11} THEN 30 ELSE 31

\* The ways '%d%b%Y' splits s: a day of one or two digits (or a blank and a
\* digit), a month
\* name of three, a year of four digits, and nothing after it.  (Month
\* names are matched in upper case, the case the feed writes them in.)
DaySplits(s) ==
    {k \in {1, 2} :
        /\ Len(s) = k + 7
        /\ \/ AllDigits(SubSeq(s, 1, k))
           \/ k = 2 /\ s[1] = " " /\ s[2] \in Digit
        /\ MonthNo(SubSeq(s, k + 1, k + 3)) # 0
        /\ AllDigits(SubSeq(s, k + 4, k + 7))}

strptime(s) ==
    LET k == CHOOSE k \in DaySplits(s) : TRUE
    IN  [m |-> MonthNo(SubSeq(s, k + 1, k + 3)),
         d |-> nat(lstrip(SubSeq(s, 1, k), {" "})),
         y |-> nat(SubSeq(s, k + 4, k + 7))]

\* strftime(strptime(s, '%d%b%Y'), '%m/%d/%Y') raises ValueError unless s
\* splits, the day exists in the month, and the year is one strftime
\* formats (>= 1900).
strptime_ok(s) ==
    /\ DaySplits(s) # {}
    /\ strptime(s).d >= 1
    /\ strptime(s).d <= DaysIn(strptime(s).m, strptime(s).y)
    /\ strptime(s).y >= 1900


(***************************************************************************)
(* The record decoders (the loop bodies of parse.py up to the row)         *)
(***************************************************************************)
FUTIDX == <<"F", "U", "T", "I", "D", "X">>

FUTSTK == <<"F", "U", "T", "S", "T", "K">>

\* instrument not in ['FUTIDX', 'FUTSTK']
Retained == {FUTIDX, FUTSTK}

\* The widths the slices of a full record add up to.
OrderWidth == 111

TradeWidth == 123

Dropped == [tag |-> "Dropped"]

Raise(field) == [tag |-> "Error", at |-> field]

Row(r) == [tag |-> "Row", row |-> r]

\* limit_price = '%.2f' % float(line[89:95]+'.'+line[95:97])
limit_text(line) == Slice(line, 89, 95) \o <<".">> \o Slice(line, 95, 97)

\* trigger_price = '%.2f' % float(line[97:105]+'.'+line[103:105])
trigger_text(line) == Slice(line, 97, 105) \o <<".">> \o Slice(line, 103, 105)

\* One pass of the loop body of parse_orders_data over `line`, statement by
\* statement: the first statement that raises ends it, `continue` drops
\* the record, and otherwise the row is built.
order_decode(line) ==
    IF ~int_ok(Slice(line, 22, 36)) THEN Raise("trans_date_time")
    ELSE IF Slice(line, 48, 54) \notin Retained THEN Dropped
    ELSE IF ~strptime_ok(Slice(line, 54, 63)) THEN Raise("expiry_date")
    ELSE IF ~int_ok(Slice(line, 63, 71)) THEN Raise("strike_price")
    ELSE IF ~int_ok(Slice(line, 73, 81)) THEN Raise("volume_disclosed")
    ELSE IF ~int_ok(Slice(line, 81, 89)) THEN Raise("volume_original")
    ELSE IF ~float_ok(limit_text(line)) THEN Raise("limit_price")
    ELSE IF ~float_ok(trigger_text(line)) THEN Raise("trigger_price")
    ELSE Row([record_indicator |-> Slice(line, 0, 2),
              segment |-> Slice(line, 2, 6),
              order_number |-> Slice(line, 6, 22),
              trans_date |-> date_time(Slice(line, 22, 36)).date,
              trans_time |-> date_time(Slice(line, 22, 36)).time,
              buy_sell_indicator |-> Slice(line, 36, 37),
              activity_type |-> Slice(line, 37, 38),
              symbol |-> strip(Slice(line, 38, 48), {"b"}),
              instrument |-> Slice(line, 48, 54),
              expiry_date |-> strptime(Slice(line, 54, 63)),
              strike_price |-> int(Slice(line, 63, 71)),
              option_type |-> Slice(line, 71, 73),
              volume_disclosed |-> int(Slice(line, 73, 81)),
              volume_original |-> int(Slice(line, 81, 89)),
              limit_price |-> fmt2f(limit_text(line)),
              trigger_price |-> fmt2f(trigger_text(line)),
              mkt_flag |-> Slice(line, 105, 106),
              on_stop_flag |-> Slice(line, 106, 107),
              io_flag |-> Slice(line, 107, 108),
              spread_comb_type |-> Slice(line, 108, 109),
              algo_ind |-> Slice(line, 109, 110),
              client_id_flag |-> Slice(line, 110, 111)])

\* strike_price = '%.2f' % float(line[61:67]+'.'+line[67:69])
strike_text(line) == Slice(line, 61, 67) \o <<".">> \o Slice(line, 67, 69)

\* trade_price = '%.2f' % float(line[71:77]+'.'+line[77:79])
price_text(line) == Slice(line, 71, 77) \o <<".">> \o Slice(line, 77, 79)

\* One pass of the loop body of parse_trades_data over `line`.
trade_decode(line) ==
    IF ~int_ok(Slice(line, 22, 36)) THEN Raise("trade_date_time")
    ELSE IF Slice(line, 46, 52) \notin Retained THEN Dropped
    ELSE IF ~strptime_ok(Slice(line, 52, 61)) THEN Raise("expiry_date")
    ELSE IF ~float_ok(strike_text(line)) THEN Raise("strike_price")
    ELSE IF ~float_ok(price_text(line)) THEN Raise("trade_price")
    ELSE IF ~int_ok(Slice(line, 79, 87)) THEN Raise("trade_quantity")
    ELSE Row([record_indicator |-> Slice(line, 0, 2),
              segment |-> Slice(line, 2, 6),
              trade_number |-> Slice(line, 6, 22),
              trade_date |-> date_time(Slice(line, 22, 36)).date,
              trade_time |-> date_time(Slice(line, 22, 36)).time,
              symbol |-> strip(Slice(line, 36, 46), {"b"}),
              instrument |-> Slice(line, 46, 52),
              expiry_date |-> strptime(Slice(line, 52, 61)),
              strike_price |-> fmt2f(strike_text(line)),
              option_type |-> Slice(line, 69, 71),
              trade_price |-> fmt2f(price_text(line)),
              trade_quantity |-> int(Slice(line, 79, 87)),
              buy_order_num |-> Slice(line, 87, 103),
              buy_algo_ind |-> Slice(line, 103, 104),
              buy_client_id_flag |-> Slice(line, 104, 105),
              sell_order_num |-> Slice(line, 105, 121),
              sell_algo_ind |-> Slice(line, 121, 122),
              sell_client_id_flag |-> Slice(line, 122, 123)])

decode(k, line) == IF k = "orders" THEN order_decode(line) ELSE trade_decode(line)

\* The fields the two layouts place differently.
instrument_of(k, line) ==
    IF k = "orders" THEN Slice(line, 48, 54) ELSE Slice(line, 46, 52)

expiry_of(k, line) ==
    IF k = "orders" THEN Slice(line, 54, 63) ELSE Slice(line, 52, 61)

timestamp_of(line) == Slice(line, 22, 36)

Width(k) == IF k = "orders" THEN OrderWidth ELSE TradeWidth

(***************************************************************************)
(* The input lines the model feeds the parsers                             *)
(***************************************************************************)
Rep(c, n) == [i \in 1..n |-> c]

\* 2012-09-14 09:15:00.5 UTC, in jiffies since 1/1/1980.
TsGood == <<"6","7","6","3","8","4","8","0","1","0","9","5","6","8">>

TsBad == <<"6","7","6","3","8","4","8","0","1","0","9","5","6","x">>

ExpGood == <<"2","7","S","E","P","2","0","1","2">>

ExpBad == <<"2","7","S","E","P","2","0","1","x">>

OPTIDX == <<"O", "P", "T", "I", "D", "X">>

NIFTY == <<"N","I","F","T","Y","b","b","b","b","b">>

ABB == <<"A","B","B","b","b","b","b","b","b","b">>

Num1 == Rep("0", 15) \o <<"1">>

Num2 == Rep("0", 15) \o <<"2">>

\* A full order record: the fields in the order and widths of the layout.
OrderRecord(num, ts, sym, instr, exp) ==
    <<"R","M">> \o <<"F","A","O"," ">> \o num \o ts \o <<"B">> \o <<"1">> \o sym
    \o instr \o exp \o <<"0","0","0","0","0","0","0","0">> \o <<"X","X">>
    \o <<"0","0","0","0","0","0","5","0">> \o <<"0","0","0","0","0","1","0","0">>
    \o <<"0","0","5","4","0","0","5","0">> \o <<"0","0","0","0","0","0","0","0">>
    \o <<"N","N","N","S","0","1">>

\* A full trade record.
TradeRecord(num, ts, sym, instr, exp) ==
    <<"R","M">> \o <<"F","A","O"," ">> \o num \o ts \o sym \o instr \o exp
    \o <<"0","0","0","0","0","0","0","0">> \o <<"X","X">>
    \o <<"0","0","5","4","0","0","5","0">> \o <<"0","0","0","0","0","0","5","0">>
    \o Rep("0", 15) \o <<"7">> \o <<"0">> \o <<"1">>
    \o Rep("0", 15) \o <<"8">> \o <<"1">> \o <<"2">>

Record(k, num, ts, sym, instr, exp) ==
    IF k = "orders" THEN OrderRecord(num, ts, sym, instr, exp)
    ELSE TradeRecord(num, ts, sym, instr, exp)

NL == <<"\n">>

\* Where the short records of the model are cut: inside the flags, inside
\* a price, inside the quantity, inside the expiry date, inside the
\* timestamp.
Cuts(k) == IF k = "orders" THEN {110, 100, 60, 30} ELSE {122, 100, 80, 56, 30}

\* The lines iter(f_in) may yield: full records over every combination of
\* a well- or ill-formed timestamp, the three instruments and a well- or
\* ill-formed expiry; two more well-formed records of other content; and
\* a well-formed record cut short, with its line terminator or (the last
\* line of a truncated file) without.
Lines(k) ==
    {Record(k, Num1, ts, NIFTY, instr, exp) \o NL :
        ts \in {TsGood, TsBad}, instr \in {FUTIDX, FUTSTK, OPTIDX}, exp \in {ExpGood, ExpBad}}
    \cup {Record(k, Num2, TsGood, sym, FUTIDX, ExpGood) \o NL : sym \in {NIFTY, ABB}}
    \cup {SubSeq(Record(k, Num1, TsGood, NIFTY, FUTIDX, ExpGood), 1, c) \o nl :
            c \in Cuts(k), nl \in {<<>>, NL}}
    \cup {SubSeq(Record(k, Num1, TsBad, NIFTY, OPTIDX, ExpGood), 1, 40) \o NL}


(***************************************************************************)
(* parse_orders_data / parse_trades_data: the loop, the key -> sink map    *)
(* and the closing of the files                                            *)
(***************************************************************************)
\* Lines read in one run of the model.
MaxLines == 3

NoLine == [line |-> <<>>, tag |-> "none"]

\* Outside a sampling run and outside a call of analyze.
NoSample == [t |-> <<>>, v |-> <<>>]

ParseInit ==
    /\ kind \in {"orders", "trades"}
    /\ pc = "loop"
    /\ count = 0
    /\ eof = FALSE
    /\ db = <<>>
    /\ files = <<>>
    /\ opened = <<>>
    /\ rows = <<>>
    /\ last = NoLine
    /\ sdf = <<>> /\ delta = 0 /\ s_t = 0 /\ s_i = 0 /\ data_dict_last = 0
    /\ result_dict = NoSample /\ spc = "idle"
    /\ adf = <<>> /\ out = <<>> /\ apc = "idle"

has_key_never(d, symbol) == FALSE

\* db.has_key(symbol)
has_key(d, symbol) == symbol \in DOMAIN d

\* if not db.has_key(symbol): f = open(..., 'wb'); db[symbol] = {...}
\* open(..., 'wb') creates the file, or truncates the one that exists.
open_sink(row) ==
    IF has_key(db, row.symbol)
    THEN /\ db' = db
         /\ opened' = opened
         /\ files' = [files EXCEPT ![row.symbol] = Append(@, row)]
    ELSE /\ db' = (row.symbol :> "open") @@ db
         /\ opened' = Append(opened, row.symbol)
         /\ files' = (row.symbol :> <<row>>) @@ files

\* One iteration of `for line in iter(f_in)`: the next line of the file is
\* read and decoded; a row is written to the sink of its symbol, opened on
\* the symbol's first row (lines 108-112 / 208-212); an exception leaves
\* the function at once, past the loop that closes the files.
parse_line(line) ==
    /\ pc = "loop"
    /\ ~eof
    /\ count < MaxLines
    /\ count' = count + 1
    /\ eof' = (line = <<>> \/ line[Len(line)] # "\n")
    /\ last' = [line |-> line, tag |-> decode(kind, line).tag]
    /\ CASE decode(kind, line).tag = "Error" ->
              /\ pc' = "raised"
              /\ UNCHANGED <<db, files, opened, rows>>
         [] decode(kind, line).tag = "Dropped" ->
              /\ pc' = pc
              /\ UNCHANGED <<db, files, opened, rows>>
         [] decode(kind, line).tag = "Row" ->
              /\ pc' = pc
              /\ rows' = Append(rows, decode(kind, line).row)
              /\ open_sink(decode(kind, line).row)
    /\ UNCHANGED <<kind, svars, avars>>

\* The input is exhausted: the `with` block is left normally.
parse_eof ==
    /\ pc = "loop"
    /\ pc' = "closing"
    /\ UNCHANGED <<kind, count, eof, db, files, opened, rows, last, svars, avars>>

\* for symbol in db.keys(): db[symbol]['handle'].close()
parse_close ==
    /\ pc = "closing"
    /\ db' = [s \in DOMAIN db |-> "closed"]
    /\ pc' = "done"
    /\ UNCHANGED <<kind, count, eof, files, opened, rows, last, svars, avars>>

ParseNext ==
    \/ \E line \in Lines(kind) : parse_line(line)
    \/ parse_eof
    \/ parse_close

\* A run of parse_orders_data or parse_trades_data over a file of at most
\* MaxLines lines.
SpecParse == ParseInit /\ [][ParseNext]_vars



(***************************************************************************)
(* The claims about the parsers                                            *)
(***************************************************************************)
\* The record without its line terminator.
RecordOf(line) == rstrip(line, {"\n", "\r"})

Symbols(rs) == {rs[i].symbol : i \in 1..Len(rs)}

\* The symbols of a sequence of rows in the order of their first rows.
RECURSIVE FirstSeen(_)
FirstSeen(rs) ==
    IF rs = <<>> THEN <<>>
    ELSE LET f == FirstSeen(SubSeq(rs, 1, Len(rs) - 1))
             s == rs[Len(rs)].symbol
         IN  IF \E i \in 1..Len(f) : f[i] = s THEN f ELSE Append(f, s)

RowsOf(s) == SelectSeq(rows, LAMBDA r : r.symbol = s)

\* C1: a record whose instrument field is neither FUTIDX nor FUTSTK is
\* Dropped (no error, no row), whatever its other fields hold.
C1_OtherInstrumentDropped ==
    (last.tag # "none" /\ instrument_of(kind, last.line) \notin Retained)
        => last.tag = "Dropped"

\* C3: however a run ends, by exhausting the input or by a decode error,
\* every sink it opened has been closed.
C3_SinksClosedAtExit ==
    pc \in {"done", "raised"} => \A s \in DOMAIN db : db[s] = "closed"

\* C4: at every point of a run there is exactly one sink per symbol of the
\* rows produced so far, opened once, by the first row of its symbol and
\* in that order, open while input remains, and each file holds all and
\* only the rows of its symbol, in input order.
C4_OneSinkPerSymbol ==
    /\ opened = FirstSeen(rows)
    /\ DOMAIN db = Symbols(rows)
    /\ DOMAIN files = Symbols(rows)
    /\ \A s \in DOMAIN files : files[s] = RowsOf(s)
    /\ pc \in {"loop", "closing"} => \A s \in DOMAIN db : db[s] = "open"

\* C4's case: three rows, the first and third (different rows) of one
\* symbol and the second of another, so that a sink is reused after
\* another one was opened.
C4_Witness ==
    /\ Len(rows) >= 3
    /\ rows[1].symbol = rows[3].symbol
    /\ rows[1] # rows[3]
    /\ rows[2].symbol # rows[1].symbol
    /\ Len(files[rows[1].symbol]) = 2

\* C5: a record of a retained instrument that is shorter than the record
\* width, or whose timestamp or expiry does not parse, ends in a decode
\* error and no row.
C5_MalformedRaises ==
    (/\ last.tag # "none"
     /\ instrument_of(kind, last.line) \in Retained
     /\ \/ Len(RecordOf(last.line)) < Width(kind)
        \/ ~int_ok(timestamp_of(last.line))
        \/ ~strptime_ok(expiry_of(kind, last.line)))
        => last.tag = "Error"


(***************************************************************************)
(* sample(df, delta, date_time_col, *data_cols), analyze.py lines 26-95    *)
(*                                                                         *)
(* Timestamps are seconds counted from the midnight of the day of the      *)
(* series' first row; the data columns are one value per row.              *)
(***************************************************************************)
\* datetime.datetime(temp.year, temp.month, temp.day, 9, 15, 0, 0)
t_start == 9 * 3600 + 15 * 60

\* datetime.datetime(temp.year, temp.month, temp.day, 15, 30, 0, 0)
t_end == 15 * 3600 + 30 * 60

\* df[date_time_col].min()
min_time(df) == CHOOSE m \in {df[k].t : k \in 1..Len(df)} : \A k \in 1..Len(df) : m <= df[k].t

passed_strict(now, obs) == now > obs

passed_always(now, obs) == TRUE

\* t >= df.irow(i)[date_time_col]
passed(now, obs) == now >= obs

\* t += delta
advance(now, d) == now + d

\* The state after lines 58-74: the carried value is the first row's.
sample_enter(df, d) ==
    /\ sdf = df
    /\ delta = d
    /\ s_t = t_start
    /\ s_i = 0
    /\ data_dict_last = df[1].v
    /\ result_dict = NoSample
    /\ spc = "while"

\* while t <= t_end: result_dict[date_time_col].append(t)
sample_grid ==
    /\ spc = "while"
    /\ s_t <= t_end
    /\ result_dict' = [result_dict EXCEPT !.t = Append(@, s_t)]
    /\ spc' = "inner"
    /\ UNCHANGED <<sdf, delta, s_t, s_i, data_dict_last, pvars, avars>>

\* if t >= df[date_time_col].min():
\*     while i < len(df) and t >= df.irow(i)[date_time_col]:
\*         data_dict_last[col] = df.irow(i)[col]; i += 1
sample_consume ==
    /\ spc = "inner"
    /\ s_t >= min_time(sdf)
    /\ s_i < Len(sdf)
    /\ passed(s_t, sdf[s_i + 1].t)
    /\ data_dict_last' = sdf[s_i + 1].v
    /\ s_i' = s_i + 1
    /\ UNCHANGED <<sdf, delta, s_t, result_dict, spc, pvars, avars>>

\* The inner loop is over (or was not entered):
\* result_dict[col].append(data_dict_last[col]); t += delta
sample_store ==
    /\ spc = "inner"
    /\ ~(s_t >= min_time(sdf) /\ s_i < Len(sdf) /\ passed(s_t, sdf[s_i + 1].t))
    /\ result_dict' = [result_dict EXCEPT !.v = Append(@, data_dict_last)]
    /\ s_t' = advance(s_t, delta)
    /\ spc' = "while"
    /\ UNCHANGED <<sdf, delta, s_i, data_dict_last, pvars, avars>>

\* t > t_end: return pandas.DataFrame(result_dict)
sample_return ==
    /\ spc = "while"
    /\ s_t > t_end
    /\ spc' = "done"
    /\ UNCHANGED <<sdf, delta, s_t, s_i, data_dict_last, result_dict, pvars, avars>>

(***************************************************************************)
(* The series and intervals the model samples                              *)
(***************************************************************************)
\* Rows of a sampled series.
MaxSeries == 3

\* Before the open, at it, between two grid timestamps, on a later grid
\* timestamp of some interval, at the close and after it.
Times == {t_start - 1, t_start, t_start + 1, t_start + 7200, t_end, t_end + 1}

\* 3 minutes (the interval analyze uses: 126 samples), 2 hours (4 samples,
\* the last before the close), 6 h 15 (2 samples: the open and the close)
\* and more than the trading day (1 sample).
Deltas == {180, 7200, 22500, 30000}

\* Every series over Times, ordered or not; sample never reads a value
\* but to copy it, so the k-th row carries the value k.
SeriesInputs ==
    UNION {{[k \in 1..n |-> [t |-> f[k], v |-> k]] : f \in [1..n -> Times]} :
              n \in 1..MaxSeries}

\* The number of grid timestamps t_start, t_start + d, ... that are <= t_end.
GridLen(d) == (t_end - t_start) \div d + 1

GridTime(d, k) == t_start + (k - 1) * d

\* sample as a function of its arguments: the loops of lines 73-94 run to
\* their end.  inner is the inner while loop from cursor k.  outer_pass is
\* one pass of the outer loop at grid timestamp now, from the loop state st
\* (cursor, carried value, result lists); outer runs the passes lo..hi in
\* order, as the first half followed by the second.  (Evaluated is true of
\* any loop state: stating it has TLC evaluate a pass before the next.)
RECURSIVE inner(_, _, _, _)
inner(df, now, k, lastv) ==
    IF k < Len(df) /\ passed(now, df[k + 1].t)
    THEN inner(df, now, k + 1, df[k + 1].v)
    ELSE [i |-> k, last |-> lastv]

Evaluated(st) ==
    st.i >= 0 /\ st.last = st.last /\ Len(st.t) >= 0 /\ Len(st.v) >= 0

outer_pass(df, now, st) ==
    LET c == IF now >= min_time(df) THEN inner(df, now, st.i, st.last)
             ELSE [i |-> st.i, last |-> st.last]
    IN  [i |-> c.i, last |-> c.last,
         t |-> Append(st.t, now), v |-> Append(st.v, c.last)]

RECURSIVE outer(_, _, _, _, _)
outer(df, d, lo, hi, st) ==
    IF ~Evaluated(st) \/ lo > hi THEN st
    ELSE IF lo = hi THEN outer_pass(df, GridTime(d, lo), st)
    ELSE outer(df, d, (lo + hi) \div 2 + 1, hi,
               outer(df, d, lo, (lo + hi) \div 2, st))

sample(df, d) ==
    LET st == outer(df, d, 1, GridLen(d),
                    [i |-> 0, last |-> df[1].v, t |-> <<>>, v |-> <<>>])
    IN  [t |-> st.t, v |-> st.v]

SampleInit ==
    /\ \E df \in SeriesInputs, d \in Deltas : sample_enter(df, d)
    /\ kind = "none" /\ pc = "idle" /\ count = 0 /\ eof = FALSE /\ db = <<>>
    /\ files = <<>> /\ opened = <<>> /\ rows = <<>> /\ last = NoLine
    /\ adf = <<>> /\ out = <<>> /\ apc = "idle"

SampleNext ==
    \/ sample_grid
    \/ sample_consume
    \/ sample_store
    \/ sample_return

\* A call of sample.
SpecSample == SampleInit /\ [][SampleNext]_vars

\* A call of sample, which runs on (a sequential loop) while it can.
SpecSampleLive == SampleInit /\ [][SampleNext]_vars /\ WF_vars(SampleNext)


(***************************************************************************)
(* The claims about sample                                                 *)
(***************************************************************************)
Ordered(df) == \A k \in 1..(Len(df) - 1) : df[k].t <= df[k + 1].t

\* The value of the latest row with timestamp <= g, or the first row's
\* when there is none.
Carried(df, g) ==
    LET S == {k \in 1..Len(df) : df[k].t <= g}
    IN  IF S = {} THEN df[1].v ELSE df[CHOOSE k \in S : \A j \in S : j <= k].v

\* The two models of sample, the loop stepped and the function, return the
\* same table.
SampleAgrees == spc = "done" => result_dict = sample(sdf, delta)

\* C2: for a series ordered by timestamp, sample returns one sample per
\* grid timestamp open, open + interval, ... <= close, in that order, each
\* carrying the value of the latest row with timestamp <= it, or the first
\* row's value when there is none.
C2_GridForwardFill ==
    (spc = "done" /\ Ordered(sdf)) =>
        /\ Len(result_dict.t) = GridLen(delta)
        /\ Len(result_dict.v) = GridLen(delta)
        /\ \A k \in 1..GridLen(delta) :
              /\ result_dict.t[k] = GridTime(delta, k)
              /\ result_dict.v[k] = Carried(sdf, GridTime(delta, k))

\* C2's case: an ordered series whose first row comes after the open, so
\* that the first sample is seeded with it, and whose second row lies on a
\* later grid timestamp and is carried from there.
C2_Witness ==
    /\ spc = "done"
    /\ Ordered(sdf)
    /\ Len(sdf) >= 2
    /\ sdf[1].t > t_start
    /\ result_dict.v[1] = sdf[1].v
    /\ \E k \in 2..Len(result_dict.t) :
          result_dict.t[k] = sdf[2].t /\ result_dict.v[k] = sdf[2].v

\* C10: sample ends; the cursor never decreases, never exceeds the length
\* of the series, and moves, by one row, only past a row whose timestamp
\* is <= the current grid timestamp.
C10_TerminatesCursorForward ==
    /\ [][/\ s_i' >= s_i
          /\ s_i' <= Len(sdf)
          /\ s_i' # s_i => (s_i' = s_i + 1 /\ sdf[s_i'].t <= s_t)]_vars
    /\ <>(spc = "done")

\* C10's case: a finished pass that consumed some rows and left the last
\* one, which lies after the close, unconsumed.
C10_Witness ==
    /\ spc = "done"
    /\ s_i >= 2
    /\ s_i < Len(sdf)


(***************************************************************************)
(* analyze(file_name), analyze.py lines 97-271                             *)
(*                                                                         *)
(* A row of the trades file is [trade_date, trade_time, trade_price,       *)
(* trade_quantity]: the day of 09/2012 ('09/dd/2012' strings order as      *)
(* their days do), the time of day in seconds, the price in hundredths     *)
(* and the quantity.  Tables are sequences: the k-th row has label k - 1.  *)
(***************************************************************************)
\* sept_days: the business days of 09/2012
sept_days == <<3, 4, 5, 6, 7, 10, 11, 12, 13, 14, 17, 18, 19, 20, 21, 24, 25, 26, 27, 28>>

\* strptime(trade_date + ' ' + trade_time): seconds from the month's start
trade_date_time(r) == r.trade_date * 86400 + r.trade_time

RECURSIVE Flatten(_)
Flatten(ss) == IF ss = <<>> THEN <<>> ELSE Head(ss) \o Flatten(Tail(ss))

RECURSIVE Sum(_)
Sum(xs) == IF xs = <<>> THEN 0 ELSE Head(xs) + Sum(Tail(xs))

Sorted(xs) == SortSeq(xs, LAMBDA a, b : a < b)

\* df['trade_quantity'], df['trade_price']
trade_quantity(tbl) == [k \in 1..Len(tbl) |-> tbl[k].trade_quantity]

trade_price(tbl) == [k \in 1..Len(tbl) |-> tbl[k].trade_price]

MaxOf(xs) == CHOOSE m \in {xs[k] : k \in 1..Len(xs)} : \A k \in 1..Len(xs) : xs[k] <= m

MinOf(xs) == CHOOSE m \in {xs[k] : k \in 1..Len(xs)} : \A k \in 1..Len(xs) : m <= xs[k]

\* Series.quantile(q/4), four times it: linear interpolation between the
\* two order statistics around position (n - 1) * q / 4.
quantile4(xs, q) ==
    LET srt == Sorted(xs)
        pos == (Len(xs) - 1) * q
        lo == pos \div 4 + 1
    IN  IF pos % 4 = 0 THEN 4 * srt[lo]
        ELSE 4 * srt[lo] + (pos % 4) * (srt[lo + 1] - srt[lo])

\* Series.median(), twice it.
median2(xs) ==
    LET srt == Sorted(xs)
        n == Len(xs)
    IN  IF n % 2 = 1 THEN 2 * srt[(n + 1) \div 2] ELSE srt[n \div 2] + srt[n \div 2 + 1]

\* Series.mean(), as the sum and the count.
mean(xs) == [sum |-> Sum(xs), n |-> Len(xs)]

\* The rows of a table with their labels.
Labelled(tbl) == [k \in 1..Len(tbl) |-> [idx |-> k - 1, row |-> tbl[k]]]

RECURSIVE Ascending(_)
Ascending(S) ==
    IF S = {} THEN <<>>
    ELSE LET m == CHOOSE a \in S : \A b \in S : a <= b
         IN  <<m>> \o Ascending(S \ {m})

\* The group keys in ascending order.
Keys(tbl) == Ascending({tbl[k].trade_date : k \in 1..Len(tbl)})

no_groupby(tbl) == IF tbl = <<>> THEN <<>> ELSE <<Labelled(tbl)>>

\* tbl.groupby('trade_date'): one group per distinct date, in ascending
\* order of the dates, each holding its rows in table order.
groupby(tbl) ==
    LET keys == Keys(tbl)
        labelled == SelectSeq(Labelled(tbl), LAMBDA e : TRUE)
    IN  [g \in 1..Len(keys) |->
            SelectSeq(labelled, LAMBDA e : e.row.trade_date = keys[g])]

\* a.combine_first(b) for tables without nulls: the two are aligned on the
\* row labels 0, 1, ...; the rows a has are a's, the labels only b has
\* bring b's rows.
combine_first(a, b) ==
    [k \in 1..(IF Len(a) >= Len(b) THEN Len(a) ELSE Len(b)) |->
        IF k <= Len(a) THEN a[k] ELSE b[k]]

\* x.diff() over the trade times of one group: the first is null (NaT).
diff_times(g) ==
    [k \in 1..Len(g) |->
        [idx |-> g[k].idx,
         null |-> k = 1,
         val |-> IF k = 1 THEN 0
                 ELSE trade_date_time(g[k].row) - trade_date_time(g[k - 1].row)]]

\* lines 177-181: the interarrival times of each day, then without the nulls
inter_times(df) ==
    LET groups == groupby(df)
    IN  SelectSeq(Flatten([g \in 1..Len(groups) |-> diff_times(groups[g])]),
                  LAMBDA e : ~e.null)

\* lines 183-198, the quartiles four times over: 0 when there is no
\* interarrival time.
inter_time_q(pool) ==
    LET vals == [k \in 1..Len(pool) |-> pool[k].val]
    IN  IF Len(pool) > 0
        THEN <<quantile4(vals, 1), quantile4(vals, 2), quantile4(vals, 3)>>
        ELSE <<0, 0, 0>>

\* lines 201-204: the quantity summed over each day that has trades
daily_vol(df) ==
    LET groups == groupby(df)
    IN  [g \in 1..Len(groups) |->
            [trade_date |-> groups[g][1].row.trade_date,
             trade_quantity |->
                Sum([k \in 1..Len(groups[g]) |-> groups[g][k].row.trade_quantity])]]

\* lines 210-212: combine_first with a table of the sept_days and zeros
daily_vol_filled(df) ==
    combine_first(daily_vol(df),
                  [k \in 1..Len(sept_days) |->
                      [trade_date |-> sept_days[k], trade_quantity |-> 0]])

\* lines 223-226: sample(d, timedelta(minutes=3), 'trade_date_time',
\* 'trade_price', 'trade_date') for each day's group d, the results put
\* together in one table.
sampled_day(g) ==
    LET r == sample([k \in 1..Len(g) |->
                        [t |-> g[k].row.trade_time,
                         v |-> [trade_price |-> g[k].row.trade_price,
                                trade_date |-> g[k].row.trade_date]]],
                    3 * 60)
    IN  [k \in 1..Len(r.t) |->
            [trade_date_time |-> r.t[k],
             trade_price |-> r.v[k].trade_price,
             trade_date |-> r.v[k].trade_date]]

trade_price_res(df) ==
    LET groups == groupby(df)
    IN  Flatten([g \in 1..Len(groups) |-> sampled_day(groups[g])])

\* x['trade_price'].diff()/x['trade_price'] over one group of sampled
\* prices: the first is null, and so is 0/0; a return is kept as the
\* fraction num/den (den = 0 and num # 0: +-inf, which is not null).
returns_of(g) ==
    [k \in 1..Len(g) |->
        LET num == IF k = 1 THEN 0 ELSE g[k].row.trade_price - g[k - 1].row.trade_price
        IN  [null |-> k = 1 \/ (num = 0 /\ g[k].row.trade_price = 0),
             num |-> num,
             den |-> g[k].row.trade_price]]

\* lines 235-238
returns(res) ==
    LET groups == groupby(res)
    IN  SelectSeq(Flatten([g \in 1..Len(groups) |-> returns_of(groups[g])]),
                  LAMBDA e : ~e.null)

\* A statistic the model does not evaluate (a mean, a standard deviation,
\* a sum of fractions): it is named by the series it is taken over.
Zero == [value |-> "0.0"]

Over(series) == [value |-> series]

\* int(x) of x = n/100: truncation toward zero
int_hundredths(n) == IF n >= 0 THEN n \div 100 ELSE 0 - ((0 - n) \div 100)

\* lines 255-257: the prices by row, combined with a table of the
\* sept_days and zeros, grouped by date.
df_price(df) ==
    groupby(combine_first(
                [k \in 1..Len(df) |->
                    [trade_date |-> df[k].trade_date,
                     trade_price |-> df[k].trade_price]],
                [k \in 1..Len(sept_days) |->
                    [trade_date |-> sept_days[k], trade_price |-> 0]]))

\* The prices of one group of rows.
group_prices(g) == [k \in 1..Len(g) |-> g[k].row.trade_price]

\* lines 261-262: 10000*int(x) over the groups' max less df.ix[0]'s price
daily_price_max_list(df) ==
    LET groups == df_price(df)
    IN  [g \in 1..Len(groups) |->
            10000 * int_hundredths(MaxOf(group_prices(groups[g])) - df[1].trade_price)]

\* lines 263-264: the same over the groups' min
daily_price_min_list(df) ==
    LET groups == df_price(df)
    IN  [g \in 1..Len(groups) |->
            10000 * int_hundredths(MinOf(group_prices(groups[g])) - df[1].trade_price)]

\* What analyze computes from a file with at least one row.
analyze(df) ==
    LET quantity == trade_quantity(df)
        price == trade_price(df)
        s_inter_time == inter_times(df)
        s_returns == returns(trade_price_res(df))
        vol == trade_quantity(daily_vol_filled(df))
    IN  [trade_quant_q |-> <<quantile4(quantity, 1), quantile4(quantity, 2),
                             quantile4(quantity, 3)>>,
         max_trade_quant |-> MaxOf(quantity),
         min_trade_quant |-> MinOf(quantity),
         mean_trade_quant |-> mean(quantity),
         s_inter_time |-> s_inter_time,
         inter_time_q |-> inter_time_q(s_inter_time),
         df_daily_vol |-> daily_vol_filled(df),
         max_daily_vol |-> MaxOf(vol),
         min_daily_vol |-> MinOf(vol),
         mean_daily_vol |-> mean(vol),
         median_daily_vol |-> median2(vol),
         mean_trade_price |-> mean(price),
         std_trade_price_res |-> Over("df_trade_price_res"),
         s_returns |-> s_returns,
         mean_returns |-> IF Len(s_returns) > 0 THEN Over("s_returns") ELSE Zero,
         std_returns |-> IF Len(s_returns) > 0 THEN Over("s_returns") ELSE Zero,
         sum_abs_returns |-> IF Len(s_returns) > 0 THEN Over("s_returns") ELSE Zero,
         daily_price_max_list |-> daily_price_max_list(df),
         daily_price_min_list |-> daily_price_min_list(df)]

\* A call of analyze: df.ix[0] (line 262) raises when the file has no row
\* (the statements before it work on the empty table or raise earlier).
analyze_call ==
    /\ apc = "start"
    /\ IF adf = <<>>
       THEN apc' = "raised" /\ out' = [raised_at |-> "df.ix[0]"]
       ELSE apc' = "done" /\ out' = analyze(adf)
    /\ UNCHANGED <<adf, pvars, svars>>

(***************************************************************************)
(* The trades files the model analyzes                                     *)
(***************************************************************************)
\* Rows of a trades file.
MaxTrades == 3

\* The first and the last business day of the month.
TradeDays == {3, 28}

\* 09:16:00 and 09:20:00
TradeTimes == {9 * 3600 + 16 * 60, 9 * 3600 + 20 * 60}

\* 0.00 and 100.50
Prices == {0, 100 * 100 + 50}

Quantities == {10}

Trades ==
    [trade_date : TradeDays, trade_time : TradeTimes, trade_price : Prices,
     trade_quantity : Quantities]

AnalyzeInit ==
    /\ adf \in UNION {[1..n -> Trades] : n \in 0..MaxTrades}
    /\ out = <<>>
    /\ apc = "start"
    /\ kind = "none" /\ pc = "idle" /\ count = 0 /\ eof = FALSE /\ db = <<>>
    /\ files = <<>> /\ opened = <<>> /\ rows = <<>> /\ last = NoLine
    /\ sdf = <<>> /\ delta = 0 /\ s_t = 0 /\ s_i = 0 /\ data_dict_last = 0
    /\ result_dict = NoSample /\ spc = "idle"

AnalyzeNext == analyze_call

\* A call of analyze on a trades file of at most MaxTrades rows.
SpecAnalyze == AnalyzeInit /\ [][AnalyzeNext]_vars


(***************************************************************************)
(* The claims about analyze                                                *)
(***************************************************************************)
\* The labels of the rows of date d, and the label of the row of the same
\* date that precedes label j in the file (-1 when there is none).
LabelsOn(d) == {j \in 0..(Len(adf) - 1) : adf[j + 1].trade_date = d}

PrevSameDate(j) ==
    LET S == {h \in LabelsOn(adf[j + 1].trade_date) : h < j}
    IN  IF S = {} THEN 0 - 1 ELSE CHOOSE h \in S : \A g \in S : g <= h

PoolLabels(pool) == {pool[k].idx : k \in 1..Len(pool)}

\* C6: every interarrival gap in the pool is the difference between a
\* trade and the trade of the same trade_date before it; no two gaps
\* belong to the same trade, and a day with n trades contributes n - 1.
C6_GapsWithinOneDay ==
    apc = "done" =>
        LET pool == out.s_inter_time
        IN  /\ \A k \in 1..Len(pool) :
                  /\ pool[k].idx \in 0..(Len(adf) - 1)
                  /\ PrevSameDate(pool[k].idx) >= 0
                  /\ pool[k].val =
                        trade_date_time(adf[pool[k].idx + 1])
                        - trade_date_time(adf[PrevSameDate(pool[k].idx) + 1])
            /\ Cardinality(PoolLabels(pool)) = Len(pool)
            /\ \A d \in TradeDays :
                  LabelsOn(d) # {} =>
                      Cardinality(PoolLabels(pool) \cap LabelsOn(d))
                          = Cardinality(LabelsOn(d)) - 1

\* C6's case: two trades of one day with a trade of another day between
\* them in the file; the pool holds the one gap between the two.
C6_Witness ==
    /\ apc = "done"
    /\ Len(adf) = 3
    /\ adf[1].trade_date = adf[3].trade_date
    /\ adf[2].trade_date # adf[1].trade_date
    /\ adf[3].trade_time # adf[1].trade_time
    /\ Len(out.s_inter_time) = 1
    /\ out.s_inter_time[1].idx = 2
    /\ out.s_inter_time[1].val = adf[3].trade_time - adf[1].trade_time

\* The quantity traded on day d.
QuantityOn(d) ==
    Sum([k \in 1..Len(adf) |->
            IF adf[k].trade_date = d THEN adf[k].trade_quantity ELSE 0])

\* C7: the daily-volume table has exactly one row per business day of
\* 09/2012, holding the quantity traded that day (0 when none was).
C7_OneRowPerCalendarDay ==
    apc = "done" =>
        LET tbl == out.df_daily_vol
        IN  /\ Len(tbl) = Len(sept_days)
            /\ \A j \in 1..Len(sept_days) :
                  \E k \in 1..Len(tbl) :
                      /\ tbl[k].trade_date = sept_days[j]
                      /\ tbl[k].trade_quantity = QuantityOn(sept_days[j])
                      /\ \A h \in 1..Len(tbl) :
                            tbl[h].trade_date = sept_days[j] => h = k

\* The prices of day d, 0 alone when it has no trade.
PricesOn(d) ==
    LET S == {adf[k].trade_price : k \in {h \in 1..Len(adf) : adf[h].trade_date = d}}
    IN  IF S = {} THEN {0} ELSE S

SetMax(S) == CHOOSE m \in S : \A x \in S : x <= m

SetMin(S) == CHOOSE m \in S : \A x \in S : m <= x

\* C8: each of the two lists of daily price extremes has one entry per
\* business day of 09/2012, in calendar order: the truncation of
\* 10000 x (the day's extreme price - the first trade's price), which is
\* 100 x their difference in hundredths.
C8_DailyExtremesPerCalendarDay ==
    apc = "done" =>
        /\ Len(out.daily_price_max_list) = Len(sept_days)
        /\ Len(out.daily_price_min_list) = Len(sept_days)
        /\ \A j \in 1..Len(sept_days) :
              /\ out.daily_price_max_list[j] =
                    100 * (SetMax(PricesOn(sept_days[j])) - adf[1].trade_price)
              /\ out.daily_price_min_list[j] =
                    100 * (SetMin(PricesOn(sept_days[j])) - adf[1].trade_price)

\* C9: analyze does not raise whatever the file holds, and a statistic
\* whose pool is empty is reported as 0: the three quartiles when there is
\* no interarrival gap, the mean, the standard deviation and the sum of
\* absolute values when there is no return.
C9_EmptyPoolsReportZero ==
    apc # "start" =>
        /\ apc = "done"
        /\ (\A d \in TradeDays : Cardinality(LabelsOn(d)) < 2) =>
              out.inter_time_q = <<0, 0, 0>>
        /\ out.s_returns = <<>> =>
              /\ out.mean_returns = Zero
              /\ out.std_returns = Zero
              /\ out.sum_abs_returns = Zero

\* The times of the trades of date d in ascending order, and the
\* differences between the consecutive ones.
TimesOn(d) ==
    Sorted(SelectSeq([k \in 1..Len(adf) |->
                         IF adf[k].trade_date = d THEN trade_date_time(adf[k])
                         ELSE 0 - 1],
                     LAMBDA x : x >= 0))

AscendingGaps(d) ==
    [k \in 1..(Len(TimesOn(d)) - 1) |-> TimesOn(d)[k + 1] - TimesOn(d)[k]]

\* The gaps the pool holds for the trades of date d.
PooledGaps(pool, d) ==
    LET on == SelectSeq(pool, LAMBDA e : e.idx \in LabelsOn(d))
    IN  [k \in 1..Len(on) |-> on[k].val]

\* C11: whatever the order of a day's rows in the file, the gaps pooled
\* for the day are the differences between its consecutive trades in
\* ascending order of time: none is negative, and as a multiset they are
\* the same for every order of the rows.
C11_GapsInTimestampOrder ==
    apc = "done" =>
        \A d \in TradeDays :
            /\ Sorted(PooledGaps(out.s_inter_time, d)) = Sorted(AscendingGaps(d))
            /\ \A k \in 1..Len(out.s_inter_time) : out.s_inter_time[k].val >= 0

====
